---------------------------- MODULE Spec2Model ----------------------------
(***************************************************************************)
(* Two-pass invoice field extraction (src/process_invoice.py,              *)
(* src/invoice_extractor.py).                                              *)
(*                                                                         *)
(* Text.  A line of OCR text is a sequence of tokens.  A token is one      *)
(* character of the line, or one of the literal keywords the code looks    *)
(* for with `in`, written in ASCII:                                        *)
(*   "FPHM"  发票号码      "JYM"   校验码        "GOU"  购     "XIAO" 销   *)
(*   "MC"    名称          "NSRSBH" 纳税人识别号  "TYSHXYDM" 统一社会信用代码 *)
(*   "KPRQ"  开票日期      "JSHJ"  价税合计      "XX"   小写               *)
(*   "JE"    金额          "SL"    税率          "NIAN" 年  "YUE" 月  "RI" 日 *)
(*   "FWCOLON" ：  (full-width colon)    ":"  (half-width colon)           *)
(*   "FWYEN" ￥    "YEN" ¥    "*"    "%"    "."    " "                      *)
(*   "(" （   ")" ）   "MAI" 买   "FANG" 方   "GONGSI" 公司   "A","B","C"  *)
(*   "SHOU" 售                                                             *)
(* Digits are the one-character strings "0" .. "9".                        *)
(*                                                                         *)
(* Values.  An optional value is None (<<>>) or Some(v) (<<v>>).           *)
(* Extracted strings are token sequences.  Amounts (Python floats parsed   *)
(* from decimal text with at most two fractional digits) are held as an    *)
(* integer number of cents; a tax rate (percent / 100) is held as an       *)
(* integer number of hundredths.                                           *)
(*                                                                         *)
(* Record fields: path 路径, buyer 购买方, buyer_tax_id 购买方纳税人识别号,  *)
(* seller 销售方, seller_tax_id 销售方纳税人识别号, invoice_code 发票代码,   *)
(* invoice_no 发票号, check_code 校验码, date 日期, total 总金额,           *)
(* sales 销售金额, tax_rate 税率.                                          *)
(***************************************************************************)
EXTENDS Integers, Sequences, FiniteSets, TLC

VARIABLES
    csv,             \* output.csv: the rows (text, source) in file order
    self,            \* the InvoiceProcessor / InvoiceExtractor instance
    pc,              \* position of the caller (main / process_csv / a client)
    row,             \* process_csv: index of the next row of df.iterrows()
    current_source,  \* process_csv: local current_source
    retry_queue,     \* process_csv: rest of the iteration over failed_files[:]
    retry_success,   \* process_csv: local retry_success
    result,          \* process_csv: the returned records (DataFrame rows)
    log,             \* the logging records written by finalize_invoice / recovery
    last_recovery,   \* per source: what the latest second_pass_process returned and built
    calls,           \* number of client calls issued (client specification only)
    report           \* main: the frames and counts it derives from the records

vars == <<csv, self, pc, row, current_source, retry_queue, retry_success,
          result, log, last_recovery, calls, report>>

-----------------------------------------------------------------------------
(* Bounds *)

MaxStream == 3      \* rows in output.csv (process_csv specification)
MaxApiStream == 2   \* rows in output.csv (client specification)
MaxCalls == 3       \* client calls (client specification)
MaxDoc == 2         \* lines of the document (recovery specification)
MaxMainStream == 3  \* rows in output.csv (main specification)
MaxFieldStream == 3 \* rows in output.csv (field-rule specification)
MaxLocalStream == 2 \* rows in output.csv (line-locality specification)

-----------------------------------------------------------------------------
(* Optional values and small helpers *)

None == <<>>
Some(v) == <<v>>
IsNone(x) == x = <<>>
Val(x) == x[1]

Min(S) == CHOOSE m \in S : \A n \in S : m <= n
Max(S) == CHOOSE m \in S : \A n \in S : m >= n

Range(s) == {s[k] : k \in 1..Len(s)}

RECURSIVE SortedSeq(_)
SortedSeq(S) == IF S = {} THEN <<>> ELSE <<Min(S)>> \o SortedSeq(S \ {Min(S)})

RECURSIVE FilterSeq(_, _)
FilterSeq(s, S) ==
    IF s = <<>> THEN <<>>
    ELSE (IF Head(s) \in S THEN <<Head(s)>> ELSE <<>>) \o FilterSeq(Tail(s), S)

-----------------------------------------------------------------------------
(* Character classes of the regular expressions *)

Digits == {"0", "1", "2", "3", "4", "5", "6", "7", "8", "9"}
Upper == {"A", "B", "C"}
Spaces == {" "}
Colons == {":", "FWCOLON"}

DigitVal(d) ==
    CASE d = "0" -> 0 [] d = "1" -> 1 [] d = "2" -> 2 [] d = "3" -> 3
      [] d = "4" -> 4 [] d = "5" -> 5 [] d = "6" -> 6 [] d = "7" -> 7
      [] d = "8" -> 8 [] d = "9" -> 9

\* index just past the longest run of tokens of class S that starts at k
RECURSIVE RunEnd(_, _, _)
RunEnd(line, k, S) ==
    IF k > Len(line) \/ line[k] \notin S THEN k ELSE RunEnd(line, k + 1, S)

\* line[a .. b-1]
Slice(line, a, b) == SubSeq(line, a, b - 1)

\* a digit string without its leading zeros
RECURSIVE StripZeros(_)
StripZeros(ds) ==
    IF ds # <<>> /\ Head(ds) = "0" THEN StripZeros(Tail(ds)) ELSE ds

\* int(ds) for a digit string
RECURSIVE DigitsToNat(_)
DigitsToNat(ds) ==
    IF ds = <<>> THEN 0
    ELSE 10 * DigitsToNat(SubSeq(ds, 1, Len(ds) - 1)) + DigitVal(ds[Len(ds)])

\* the digits of a natural number, as str() prints them
RECURSIVE NatToDigits(_)
NatToDigits(n) ==
    LET d == CHOOSE t \in Digits : DigitVal(t) = n % 10
    IN  IF n < 10 THEN <<d>> ELSE NatToDigits(n \div 10) \o <<d>>

-----------------------------------------------------------------------------
(* Pass-1 field extraction: src/process_invoice.py:68-100 *)

\* re.search(r'[:：]\s*(X+)', line): group 1 of the leftmost match, for a
\* character class X.  \s* is greedy and gives one blank back when the class
\* admits blanks and nothing else of the class follows.
ColonGroupStart(line, c, X) ==
    LET e == RunEnd(line, c + 1, Spaces)
    IN  IF e <= Len(line) /\ line[e] \in X THEN e
        ELSE IF e > c + 1 /\ " " \in X THEN e - 1
        ELSE 0

RECURSIVE ColonGroupFrom(_, _, _)
ColonGroupFrom(line, c, X) ==
    IF c > Len(line) THEN None
    ELSE IF line[c] \in Colons /\ ColonGroupStart(line, c, X) # 0
    THEN LET s == ColonGroupStart(line, c, X)
         IN  Some(Slice(line, s, RunEnd(line, s, X)))
    ELSE ColonGroupFrom(line, c + 1, X)

ColonGroup(line, X) == ColonGroupFrom(line, 1, X)

\* str.strip()
RECURSIVE LStrip(_)
LStrip(s) == IF s # <<>> /\ Head(s) \in Spaces THEN LStrip(Tail(s)) ELSE s

RECURSIVE RStrip(_)
RStrip(s) ==
    IF s # <<>> /\ s[Len(s)] \in Spaces THEN RStrip(SubSeq(s, 1, Len(s) - 1)) ELSE s

Strip(s) == RStrip(LStrip(s))

\* str.replace(' ', '')
RECURSIVE RemoveBlanks(_)
RemoveBlanks(s) ==
    IF s = <<>> THEN <<>>
    ELSE (IF Head(s) = " " THEN <<>> ELSE <<Head(s)>>) \o RemoveBlanks(Tail(s))

\* calendar check of datetime(year, month, day)
IsLeap(y) == (y % 4 = 0 /\ y % 100 # 0) \/ y % 400 = 0

DaysInMonth(y, m) ==
    IF m \in {4, 6, 9, 11} THEN 30
    ELSE IF m = 2 THEN (IF IsLeap(y) THEN 29 ELSE 28)
    ELSE 31

ValidDate(y, m, d) ==
    /\ y >= 1 /\ y <= 9999
    /\ m >= 1 /\ m <= 12
    /\ d >= 1 /\ d <= DaysInMonth(y, m)

Pad2(n) == IF n < 10 THEN <<"0">> \o NatToDigits(n) ELSE NatToDigits(n)

\* strftime('%Y-%m-%d'); %Y prints the year without padding
FormatDate(y, m, d) == NatToDigits(y) \o <<"-">> \o Pad2(m) \o <<"-">> \o Pad2(d)

\* re.search(r'(\d{4})年(\d{1,2})月(\d{1,2})日?', text): the match that starts
\* at k, as <<year, month, day>> digit strings, or <<>> if none starts there
DateMatchAt(text, k) ==
    LET n == Len(text)
        dig(j) == j <= n /\ text[j] \in Digits
        is(j, t) == j <= n /\ text[j] = t
        \* end of the month digits: two digits before 月 preferred over one
        mEnd == IF dig(k + 5) /\ dig(k + 6) /\ is(k + 7, "YUE") THEN k + 7
                ELSE IF dig(k + 5) /\ is(k + 6, "YUE") THEN k + 6
                ELSE 0
    IN  IF ~(dig(k) /\ dig(k + 1) /\ dig(k + 2) /\ dig(k + 3) /\ is(k + 4, "NIAN"))
        THEN <<>>
        ELSE IF mEnd = 0 \/ ~dig(mEnd + 1) THEN <<>>
        ELSE <<Slice(text, k, k + 4),
               Slice(text, k + 5, mEnd),
               IF dig(mEnd + 2) THEN Slice(text, mEnd + 1, mEnd + 3)
                                ELSE Slice(text, mEnd + 1, mEnd + 2)>>

RECURSIVE DateMatchFrom(_, _)
DateMatchFrom(text, k) ==
    IF k > Len(text) THEN <<>>
    ELSE IF DateMatchAt(text, k) # <<>> THEN DateMatchAt(text, k)
    ELSE DateMatchFrom(text, k + 1)

extract_date(text) ==
    LET g == DateMatchFrom(text, 1)
    IN  IF g = <<>> THEN None
        ELSE LET y == DigitsToNat(g[1])
                 m == DigitsToNat(g[2])
                 d == DigitsToNat(g[3])
             IN  IF ValidDate(y, m, d) THEN Some(FormatDate(y, m, d)) ELSE None

\* re.search(r'(\d+\.\d{2})', t) on t = re.sub(r'[^0-9.]', '', text); the
\* float is returned in cents
AmountMatchAt(t, k) ==
    LET e == RunEnd(t, k, Digits)
    IN  /\ t[k] \in Digits
        /\ e + 2 <= Len(t)
        /\ t[e] = "."
        /\ t[e + 1] \in Digits
        /\ t[e + 2] \in Digits

\* the start of the leftmost match at or after k; 0 when there is none
RECURSIVE AmountMatchFrom(_, _)
AmountMatchFrom(t, k) ==
    IF k > Len(t) THEN 0
    ELSE IF AmountMatchAt(t, k) THEN k
    ELSE AmountMatchFrom(t, k + 1)

extract_amount(text) ==
    LET t == FilterSeq(text, Digits \cup {"."})
        k == AmountMatchFrom(t, 1)
        e == RunEnd(t, k, Digits)
    IN  IF k = 0 THEN None
        ELSE Some(100 * DigitsToNat(Slice(t, k, e))
                    + DigitsToNat(Slice(t, e + 1, e + 3)))

\* re.search(r'(\d+)%', text): the digit run of the leftmost match
RECURSIVE PercentDigitsFrom(_, _)
PercentDigitsFrom(text, k) ==
    IF k > Len(text) THEN None
    ELSE IF text[k] \notin Digits THEN PercentDigitsFrom(text, k + 1)
    ELSE LET e == RunEnd(text, k, Digits)
         IN  IF e <= Len(text) /\ text[e] = "%" THEN Some(Slice(text, k, e))
             ELSE PercentDigitsFrom(text, e)

PercentDigits(text) == PercentDigitsFrom(text, 1)

\* float(match.group(1)) / 100, in hundredths
extract_tax_rate(text) ==
    IF IsNone(PercentDigits(text)) THEN None
    ELSE Some(DigitsToNat(Val(PercentDigits(text))))

-----------------------------------------------------------------------------
(* The instance: src/process_invoice.py:20-66, src/invoice_extractor.py:8-54 *)

EmptyInvoice ==
    [path |-> None, buyer |-> None, buyer_tax_id |-> None, seller |-> None,
     seller_tax_id |-> None, invoice_code |-> None, invoice_no |-> None,
     check_code |-> None, date |-> None, total |-> None, sales |-> None,
     tax_rate |-> None]

\* found_match = FALSE: the attribute _found_match does not exist.
\* cached_sales_amount, cached_total_amount = None: the attribute does not exist.
\* cls: the class of the instance, "InvoiceProcessor" or "InvoiceExtractor".
NewInstance(cls) ==
    [cls |-> cls,
     current_invoice |-> EmptyInvoice,
     invoices |-> <<>>,
     failed_files |-> <<>>,
     cached_tax_rate |-> None,
     cached_amounts |-> None,
     found_match |-> FALSE,
     cached_sales_amount |-> None,
     cached_total_amount |-> None]

MaxAmount == 100000000   \* 1000000, in cents

\* mutation: the upper end of the interval taken as inclusive
validate_amount_inclusive(amount) ==
    IF IsNone(amount) THEN FALSE
    ELSE 0 < Val(amount) /\ Val(amount) <= MaxAmount

validate_amount(amount) ==
    IF IsNone(amount) THEN FALSE
    ELSE 0 < Val(amount) /\ Val(amount) < MaxAmount

\* the condition of finalize_invoice, process_invoice.py:176-178
Accepts(inv) ==
    /\ ~IsNone(inv.invoice_no)
    /\ ~IsNone(inv.total)
    /\ validate_amount(inv.total)

-----------------------------------------------------------------------------
(* process_line: src/process_invoice.py:102-170 *)

Has(text, kw) == kw \in Range(text)

AnyClass(text) == Range(text) \cup Spaces

\* mutation: only the half-width colon opens the number
SetInvoiceNo_HalfWidth(inv, text) ==
    LET m == ColonGroup(FilterSeq(text, Range(text) \ {"FWCOLON"}), Digits)
    IN  IF Has(text, "FPHM") /\ ~IsNone(m)
        THEN [inv EXCEPT !.invoice_no = m] ELSE inv

SetInvoiceNo(inv, text) ==
    LET m == ColonGroup(text, Digits)
    IN  IF Has(text, "FPHM") /\ ~IsNone(m)
        THEN [inv EXCEPT !.invoice_no = m] ELSE inv

SetCheckCode(inv, text) ==
    LET m == ColonGroup(text, Digits \cup Spaces)
    IN  IF Has(text, "JYM") /\ ~IsNone(m)
        THEN [inv EXCEPT !.check_code = Some(RemoveBlanks(Val(m)))] ELSE inv

SetBuyer(inv, text) ==
    LET m == ColonGroup(text, AnyClass(text))
    IN  IF Has(text, "GOU") /\ Has(text, "MC") /\ ~IsNone(m)
        THEN [inv EXCEPT !.buyer = Some(Strip(Val(m)))] ELSE inv

SetSeller(inv, text) ==
    LET m == ColonGroup(text, AnyClass(text))
    IN  IF Has(text, "XIAO") /\ Has(text, "MC") /\ ~IsNone(m)
        THEN [inv EXCEPT !.seller = Some(Strip(Val(m)))] ELSE inv

\* mutation: every tax ID goes to the buyer slot while the seller slot is empty
SetTaxId_BuyerWhileNoSeller(inv, text) ==
    LET m == ColonGroup(text, Digits \cup Upper)
    IN  IF (Has(text, "NSRSBH") \/ Has(text, "TYSHXYDM")) /\ ~IsNone(m)
        THEN IF IsNone(inv.seller_tax_id) /\ inv.buyer_tax_id # m
             THEN [inv EXCEPT !.buyer_tax_id = m]
             ELSE [inv EXCEPT !.seller_tax_id = m]
        ELSE inv

SetTaxId(inv, text) ==
    LET m == ColonGroup(text, Digits \cup Upper)
    IN  IF (Has(text, "NSRSBH") \/ Has(text, "TYSHXYDM")) /\ ~IsNone(m)
        THEN IF IsNone(inv.buyer_tax_id) \/ inv.buyer_tax_id = Some(<<>>)
             THEN [inv EXCEPT !.buyer_tax_id = m]
             ELSE [inv EXCEPT !.seller_tax_id = m]
        ELSE inv

SetDate(inv, text) ==
    LET d == extract_date(text)
    IN  IF Has(text, "KPRQ") /\ ~IsNone(d) /\ d # Some(<<>>)
        THEN [inv EXCEPT !.date = d] ELSE inv

TotalKeywords == {"JSHJ", "XX", "FWYEN", "YEN", "*"}

\* mutation: the total overwritten by every matching line (last match wins)
SetTotal_LastWins(inv, text) ==
    LET amount == extract_amount(text)
    IN  IF /\ Range(text) \cap TotalKeywords # {}
           /\ ~IsNone(amount) /\ Val(amount) # 0
        THEN [inv EXCEPT !.total = amount] ELSE inv

SetTotal(inv, text) ==
    LET amount == extract_amount(text)
    IN  IF /\ Range(text) \cap TotalKeywords # {}
           /\ ~IsNone(amount) /\ Val(amount) # 0
           /\ (IsNone(inv.total) \/ Val(amount) > Val(inv.total))
        THEN [inv EXCEPT !.total = amount] ELSE inv

SetSales(inv, text) ==
    LET amount == extract_amount(text)
    IN  IF Has(text, "JE") /\ Has(text, "SL") /\ ~IsNone(amount) /\ Val(amount) # 0
        THEN [inv EXCEPT !.sales = amount] ELSE inv

\* mutation: a tax rate already set is kept
SetTaxRate_KeepFirst(inv, text) ==
    LET tax_rate == extract_tax_rate(text)
    IN  IF Has(text, "SL") /\ ~IsNone(tax_rate) /\ Val(tax_rate) # 0
           /\ IsNone(inv.tax_rate)
        THEN [inv EXCEPT !.tax_rate = tax_rate] ELSE inv

SetTaxRate(inv, text) ==
    LET tax_rate == extract_tax_rate(text)
    IN  IF Has(text, "SL") /\ ~IsNone(tax_rate) /\ Val(tax_rate) # 0
        THEN [inv EXCEPT !.tax_rate = tax_rate] ELSE inv

\* lines 110-170: the field rules, in the order of the code
UpdateFields(inv, text) ==
    SetTaxRate(SetSales(SetTotal(SetDate(SetTaxId(SetSeller(SetBuyer(
        SetCheckCode(SetInvoiceNo(inv, text), text), text), text), text),
        text), text), text), text)

\* lines 104-108: a new source closes the accumulator
OpenSegment(s, source) ==
    IF s.current_invoice.path # Some(source)
    THEN [s EXCEPT
            !.invoices = IF ~IsNone(s.current_invoice.path)
                         THEN Append(@, s.current_invoice) ELSE @,
            !.current_invoice = [EmptyInvoice EXCEPT !.path = Some(source)]]
    ELSE s

process_line(s, text, source) ==
    LET s1 == OpenSegment(s, source)
    IN  [s1 EXCEPT !.current_invoice = UpdateFields(s1.current_invoice, text)]

-----------------------------------------------------------------------------
(* finalize_invoice: src/process_invoice.py:172-188 *)

InSeq(x, q) == \E k \in 1..Len(q) : q[k] = x

\* what finalize_invoice logs: nothing, the success line (180) or the warning (188)
FinalizeLog(s) ==
    IF IsNone(s.current_invoice.path) THEN <<>>
    ELSE IF Accepts(s.current_invoice)
         THEN <<[ev |-> "accepted", src |-> Val(s.current_invoice.path)]>>
         ELSE <<[ev |-> "rejected", src |-> Val(s.current_invoice.path)]>>

\* mutation: the rejected path appended without the membership test of line 186
finalize_invoice_AlwaysAppend(s) ==
    IF IsNone(s.current_invoice.path) THEN s
    ELSE IF Accepts(s.current_invoice) THEN s
    ELSE [s EXCEPT !.failed_files = Append(@, Val(s.current_invoice.path))]

finalize_invoice(s) ==
    IF IsNone(s.current_invoice.path) THEN s
    ELSE IF Accepts(s.current_invoice) THEN s
    ELSE LET failed_file == Val(s.current_invoice.path)
         IN  IF ~InSeq(failed_file, s.failed_files)
             THEN [s EXCEPT !.failed_files = Append(@, failed_file)]
             ELSE s

-----------------------------------------------------------------------------
(* Inputs *)

Sources == {"a.pdf", "b.pdf"}

\* 购买方名称：ABC公司
L_buyer == <<"GOU", "MAI", "FANG", "MC", "FWCOLON", "A", "B", "C", "GONGSI">>
\* 发票号码：12345678
L_number == <<"FPHM", "FWCOLON", "1", "2", "3", "4", "5", "6", "7", "8">>
\* 价税合计（小写）￥113.00
L_total == <<"JSHJ", "(", "XX", ")", "FWYEN", "1", "1", "3", ".", "0", "0">>
\* ￥1000000.00
L_million == <<"FWYEN", "1", "0", "0", "0", "0", "0", "0", ".", "0", "0">>
\* ￥0.00
L_zero == <<"FWYEN", "0", ".", "0", "0">>
\* 发票号码12345678 100.00 106.00
L_pair == <<"FPHM", "1", "2", "3", "4", "5", "6", "7", "8", " ",
            "1", "0", "0", ".", "0", "0", " ", "1", "0", "6", ".", "0", "0">>
\* 金额100.00 税率6% 106.00
L_tax == <<"JE", "1", "0", "0", ".", "0", "0", " ", "SL", "6", "%", " ",
           "1", "0", "6", ".", "0", "0">>

\* 12345678901234567890
L_bare == <<"1", "2", "3", "4", "5", "6", "7", "8", "9", "0",
            "1", "2", "3", "4", "5", "6", "7", "8", "9", "0">>
\* 0% 6%
L_rates == <<"0", "%", " ", "6", "%">>
\* 90.00 95.70
L_cands == <<"9", "0", ".", "0", "0", " ", "9", "5", ".", "7", "0">>
\* 50.00 53.00
L_low == <<"5", "0", ".", "0", "0", " ", "5", "3", ".", "0", "0">>
\* 税率6%
L_rate == <<"SL", "6", "%">>
\* 发票号码12345678 100.00 6% 106.00
L_full == <<"FPHM", "1", "2", "3", "4", "5", "6", "7", "8", " ",
            "1", "0", "0", ".", "0", "0", " ", "6", "%", " ",
            "1", "0", "6", ".", "0", "0">>
\* 发票号码87654321 100.00 6% 106.00
L_other == <<"FPHM", "8", "7", "6", "5", "4", "3", "2", "1", " ",
             "1", "0", "0", ".", "0", "0", " ", "6", "%", " ",
             "1", "0", "6", ".", "0", "0">>
\* 开票日期：2024年01月15日
L_date == <<"KPRQ", "FWCOLON", "2", "0", "2", "4", "NIAN", "0", "1", "YUE",
            "1", "5", "RI">>
\* 销售方名称：ABC公司
L_seller == <<"XIAO", "SHOU", "FANG", "MC", "FWCOLON", "A", "B", "C", "GONGSI">>

\* 税率100%
L_rate100 == <<"SL", "1", "0", "0", "%">>
\* 税率0%
L_rate0 == <<"SL", "0", "%">>
\* 纳税人识别号：91A
L_taxid1 == <<"NSRSBH", "FWCOLON", "9", "1", "A">>
\* 统一社会信用代码：92B
L_taxid2 == <<"TYSHXYDM", "FWCOLON", "9", "2", "B">>

Lines == {L_buyer, L_number, L_total, L_million, L_zero, L_pair, L_tax}

ApiLines == {L_number, L_total, L_pair, L_tax}

\* 发票号码123
L_short == <<"FPHM", "1", "2", "3">>
\* 金额0.01 税率6%
L_cent == <<"JE", "0", ".", "0", "1", " ", "SL", "6", "%">>

\* the lines of the documents handed to the recovery alone
RecoverLines == {L_pair, L_tax, L_bare, L_rates, L_rate, L_cands, L_low,
                 L_date, L_seller, L_buyer, L_short, L_cent}

\* the lines of the runs of main that are followed to its report
MainLines == {L_number, L_total, L_full, L_other}

\* 发票号码：87654321
L_number2 == <<"FPHM", "FWCOLON", "8", "7", "6", "5", "4", "3", "2", "1">>
\* 校验码：12 34
L_check == <<"JYM", "FWCOLON", "1", "2", " ", "3", "4">>

\* the lines of the runs that exercise the field rules of pass 1
FieldLines == {L_rate, L_rate100, L_rate0, L_taxid1, L_taxid2, L_number}

\* one line or more for every field rule of pass 1 but the total's
LocalLines == {L_number, L_number2, L_check, L_buyer, L_seller, L_taxid1, L_taxid2,
               L_date, L_tax, L_rate100}

AllLines == Lines \cup RecoverLines \cup MainLines \cup FieldLines \cup LocalLines

Rows(lines) == [text : lines, source : Sources]

Streams(lines, n) == UNION {[1..k -> Rows(lines)] : k \in 0..n}

-----------------------------------------------------------------------------
(* retry_extract: src/process_invoice.py:190-267,                          *)
(*                src/invoice_extractor.py:56-123                          *)

\* re.search(r'发票号码:?\s*(\d+)', line): group 1 of the leftmost match
LabeledNumberAt(line, k) ==
    LET j == IF k + 1 <= Len(line) /\ line[k + 1] = ":" THEN k + 2 ELSE k + 1
        e == RunEnd(line, j, Spaces)
    IN  IF line[k] = "FPHM" /\ e <= Len(line) /\ line[e] \in Digits
        THEN Some(Slice(line, e, RunEnd(line, e, Digits)))
        ELSE None

RECURSIVE LabeledNumberFrom(_, _)
LabeledNumberFrom(line, k) ==
    IF k > Len(line) THEN None
    ELSE IF line[k] = "FPHM" /\ ~IsNone(LabeledNumberAt(line, k))
    THEN LabeledNumberAt(line, k)
    ELSE LabeledNumberFrom(line, k + 1)

LabeledNumber(line) == LabeledNumberFrom(line, 1)

\* re.search(r'^\d{20}$', line): group 0
BareLength == 20

BareNumber(line) ==
    IF Len(line) = BareLength /\ Range(line) \subseteq Digits THEN Some(line) ELSE None

MinNumberLength == 8

\* lines 194-203: per line, the patterns in order; the first match of at
\* least MinNumberLength characters is returned
\* lines 195-202 for one line: the patterns in order, a match shorter than
\* MinNumberLength is passed over
\* mutation: a match of any length is returned
LineInvoiceNumber_AnyLength(line) ==
    IF ~IsNone(LabeledNumber(line)) THEN LabeledNumber(line) ELSE BareNumber(line)

LineInvoiceNumber(line) ==
    LET m1 == LabeledNumber(line)
        m2 == BareNumber(line)
    IN  IF ~IsNone(m1) /\ Len(Val(m1)) >= MinNumberLength THEN m1
        ELSE IF ~IsNone(m2) /\ Len(Val(m2)) >= MinNumberLength THEN m2
        ELSE None

\* the per-line results for the lines of the input catalogue, computed once
InvoiceNumberOf == [line \in AllLines |-> LineInvoiceNumber(line)]

RECURSIVE RetryInvoiceNumber(_)
RetryInvoiceNumber(text_lines) ==
    IF text_lines = <<>> THEN None
    ELSE IF ~IsNone(InvoiceNumberOf[Head(text_lines)])
    THEN InvoiceNumberOf[Head(text_lines)]
    ELSE RetryInvoiceNumber(Tail(text_lines))

\* lines 206-212 (InvoiceProcessor only): the first line that carries a name
LineBuyer(line) ==
    LET m == ColonGroup(line, AnyClass(line))
    IN  IF Has(line, "GOU") /\ Has(line, "MC") /\ ~IsNone(m)
        THEN Some(Strip(Val(m)))
        ELSE None

BuyerOf == [line \in AllLines |-> LineBuyer(line)]

RECURSIVE RetryBuyer(_)
RetryBuyer(text_lines) ==
    IF text_lines = <<>> THEN None
    ELSE IF ~IsNone(BuyerOf[Head(text_lines)]) THEN BuyerOf[Head(text_lines)]
    ELSE RetryBuyer(Tail(text_lines))

\* lines 216-223: the first line whose leftmost percent value lies in (0, 100)
LineTaxRate(line) ==
    LET m == PercentDigits(line)
        sig == IF IsNone(m) THEN <<>> ELSE StripZeros(Val(m))
    IN  IF ~IsNone(m) /\ Len(sig) <= 2 /\ 0 < DigitsToNat(sig)
           /\ DigitsToNat(sig) < 100
        THEN Some(DigitsToNat(sig))
        ELSE None

TaxRateOf == [line \in AllLines |-> LineTaxRate(line)]

RECURSIVE ScanTaxRate(_)
ScanTaxRate(text_lines) ==
    IF text_lines = <<>> THEN None
    ELSE IF ~IsNone(TaxRateOf[Head(text_lines)]) THEN TaxRateOf[Head(text_lines)]
    ELSE ScanTaxRate(Tail(text_lines))

\* re.findall(r'(\d+\.?\d*)', line) from position k on, each number as
\* <<integer digits, fraction digits>>
RECURSIVE FindNumbers(_, _)
FindNumbers(line, k) ==
    IF k > Len(line) THEN <<>>
    ELSE IF line[k] \notin Digits THEN FindNumbers(line, k + 1)
    ELSE LET e == RunEnd(line, k, Digits)
             dot == e <= Len(line) /\ line[e] = "."
             f == IF dot THEN RunEnd(line, e + 1, Digits) ELSE e
         IN  <<<<Slice(line, k, e), IF dot THEN Slice(line, e + 1, f) ELSE <<>>>>>>
                \o FindNumbers(line, f)

\* float(num) in cents (fraction of at most two digits)
ToCents(num) ==
    LET frac == num[2] \o <<"0", "0">>
    IN  100 * DigitsToNat(num[1]) + DigitsToNat(SubSeq(frac, 1, 2))

\* 0 < float(num) < 1000000, decided on the digits first: a number of more
\* than seven integer digits is out of range whatever follows
AmountInRange(num) ==
    /\ Len(StripZeros(num[1])) <= 7
    /\ 0 < ToCents(num)
    /\ ToCents(num) < MaxAmount

\* lines 233-240 for one line
LineAmounts(line) ==
    LET nums == FindNumbers(line, 1)
    IN  {ToCents(nums[k]) : k \in {j \in 1..Len(nums) : AmountInRange(nums[j])}}

AmountsOf == [line \in AllLines |-> LineAmounts(line)]

\* lines 231-242
RECURSIVE CandidateAmounts(_)
CandidateAmounts(text_lines) ==
    IF text_lines = <<>> THEN {}
    ELSE AmountsOf[Head(text_lines)] \cup CandidateAmounts(Tail(text_lines))

\* round(sales_amount * (1 + rate), 2) in cents, for sales_amount = c cents
\* and rate = p / 100.  The product is c + c*p/100; away from an exact half
\* cent the binary floating-point result rounds as the exact value does.  At
\* an exact half cent the float lies on either side: FloatTiesDown lists the
\* cases measured to round down (6 percent, amounts below 10.00), all other
\* ties round up.
FloatTiesDown == {<<175, 6>>, <<425, 6>>, <<625, 6>>, <<775, 6>>, <<925, 6>>}

RoundedTotal(c, p) ==
    LET q == c \div 100
        m == c % 100
        rem == (m * p) % 100
        up == IF rem = 50 THEN <<c, p>> \notin FloatTiesDown ELSE rem > 50
    IN  c + q * p + (m * p) \div 100 + (IF up THEN 1 ELSE 0)

\* lines 249-259: the first candidate, ascending, whose expected total is a
\* candidate; 0 when there is none
\* mutation: the last such candidate instead of the first
FirstMatch_Last(amounts, k, p) ==
    LET hits == {j \in k..Len(amounts) : InSeq(RoundedTotal(amounts[j], p), amounts)}
    IN  IF hits = {} THEN 0 ELSE Max(hits)

RECURSIVE FirstMatch(_, _, _)
FirstMatch(amounts, k, p) ==
    IF k > Len(amounts) THEN 0
    ELSE IF InSeq(RoundedTotal(amounts[k], p), amounts) THEN k
    ELSE FirstMatch(amounts, k + 1, p)

\* lines 215-223
DetermineTaxRate(s, text_lines) ==
    IF IsNone(s.cached_tax_rate)
    THEN [s EXCEPT !.cached_tax_rate = ScanTaxRate(text_lines)]
    ELSE s

\* lines 230-243
CollectAmounts(s, text_lines) ==
    IF IsNone(s.cached_amounts)
    THEN [s EXCEPT !.cached_amounts = Some(SortedSeq(CandidateAmounts(text_lines)))]
    ELSE s

\* lines 246-259
\* lines 251-256: the pair found at position k of the candidates (0: none)
CacheMatch(s, k) ==
    IF k = 0 THEN s
    ELSE [s EXCEPT !.found_match = TRUE,
                   !.cached_sales_amount = Some(Val(s.cached_amounts)[k]),
                   !.cached_total_amount =
                       Some(RoundedTotal(Val(s.cached_amounts)[k],
                                         Val(s.cached_tax_rate)))]

\* lines 246-259
SearchMatch(s, field) ==
    IF field \in {"total", "sales"} /\ ~IsNone(s.cached_tax_rate) /\ ~s.found_match
    THEN CacheMatch(s, FirstMatch(Val(s.cached_amounts), 1, Val(s.cached_tax_rate)))
    ELSE s

\* the value returned and the instance afterwards; buyer_branch tells whether
\* the class has the branch of lines 206-212 (InvoiceProcessor) or not
\* (InvoiceExtractor).  Fields: "invoice_number" 发票号码, "total" 总金额,
\* "sales" 销售金额, "date" 日期, "buyer" 购买方, "seller" 销售方, "tax_rate" 税率.
\* lines 261-267: the value returned once the caches are filled
ReturnCached(s, field) ==
    IF /\ field \in {"total", "sales"}
       /\ ~IsNone(s.cached_tax_rate)
       /\ s.found_match
    THEN [val |-> IF field = "total" THEN s.cached_total_amount
                  ELSE s.cached_sales_amount,
          s |-> s]
    ELSE [val |-> None, s |-> s]

\* lines 226-267, the tax rate determined
AfterTaxRate(s, text_lines, field) ==
    IF field = "tax_rate"
    THEN [val |-> s.cached_tax_rate, s |-> s]
    ELSE ReturnCached(SearchMatch(CollectAmounts(s, text_lines), field), field)

retry_extract(s, text_lines, field, buyer_branch) ==
    IF field = "invoice_number"
    THEN [val |-> RetryInvoiceNumber(text_lines), s |-> s]
    ELSE IF field = "buyer" /\ buyer_branch
    THEN [val |-> RetryBuyer(text_lines), s |-> s]
    ELSE AfterTaxRate(DetermineTaxRate(s, text_lines), text_lines, field)

-----------------------------------------------------------------------------
(* second_pass_process: src/process_invoice.py:269-321,                    *)
(*                      src/invoice_extractor.py:125-167                   *)

fields_to_retry == <<"invoice_number", "total", "date", "buyer", "seller", "tax_rate">>

field_map(field) == IF field = "invoice_number" THEN "invoice_no" ELSE field

\* df[df['source'] == failed_file]['text'].tolist()
RECURSIVE LinesOf(_, _)
LinesOf(rows, source) ==
    IF rows = <<>> THEN <<>>
    ELSE (IF Head(rows).source = source THEN <<Head(rows).text>> ELSE <<>>)
            \o LinesOf(Tail(rows), source)

\* the loop over fields_to_retry
\* lines 302-303: a value that is not None is stored under the mapped key
StoreField(r, field) ==
    IF ~IsNone(r.val)
    THEN [r.s EXCEPT !.current_invoice[field_map(field)] = r.val]
    ELSE r.s

RECURSIVE RetryFields(_, _, _, _)
RetryFields(s, text_lines, fields, buyer_branch) ==
    IF fields = <<>> THEN s
    ELSE RetryFields(StoreField(retry_extract(s, text_lines, Head(fields), buyer_branch),
                                Head(fields)),
                     text_lines, Tail(fields), buyer_branch)

\* process_invoice.py:272-276
ResetCaches(s) ==
    [s EXCEPT !.cached_tax_rate = None, !.cached_amounts = None, !.found_match = FALSE]

\* mutation: the older records of the file kept
WithoutPath_Keep(invs, failed_file) == invs

\* [inv for inv in self.invoices if inv['路径'] != failed_file]
RECURSIVE WithoutPath(_, _)
WithoutPath(invs, failed_file) ==
    IF invs = <<>> THEN <<>>
    ELSE (IF Head(invs).path # Some(failed_file) THEN <<Head(invs)>> ELSE <<>>)
            \o WithoutPath(Tail(invs), failed_file)

\* mutation: success decided without looking at the invoice number
RecoverySucceeds_NoNumber(s) ==
    /\ s.found_match
    /\ ~IsNone(s.current_invoice.total)

\* process_invoice.py:308-310
RecoverySucceeds(s) ==
    /\ s.found_match
    /\ ~IsNone(s.current_invoice.invoice_no)
    /\ ~IsNone(s.current_invoice.total)

\* InvoiceProcessor.second_pass_process: the value returned and the instance
\* afterwards; rows is the content of output.csv
\* lines 284-285
ResetInvoice(s, failed_file) ==
    [s EXCEPT !.current_invoice = [EmptyInvoice EXCEPT !.path = Some(failed_file)]]

\* mutation: a failed recovery drops the older records of the file
Conclude_Purge(s, failed_file) ==
    IF RecoverySucceeds(s)
    THEN [ok |-> TRUE,
          s |-> [s EXCEPT !.invoices =
                    Append(WithoutPath(@, failed_file), s.current_invoice)]]
    ELSE [ok |-> FALSE, s |-> [s EXCEPT !.invoices = WithoutPath(@, failed_file)]]

\* lines 308-321, the fields retried
Conclude(s, failed_file) ==
    IF RecoverySucceeds(s)
    THEN [ok |-> TRUE,
          s |-> [s EXCEPT !.invoices =
                    Append(WithoutPath(@, failed_file), s.current_invoice)]]
    ELSE [ok |-> FALSE, s |-> s]

second_pass_process(s, failed_file, rows) ==
    Conclude(RetryFields(ResetInvoice(ResetCaches(s), failed_file),
                         LinesOf(rows, failed_file), fields_to_retry, TRUE),
             failed_file)

\* InvoiceExtractor.second_pass_process(failed_file, text_lines)
\* invoice_extractor.py:156-167, the fields retried
extractor_Conclude(s) ==
    IF Accepts(s.current_invoice)
    THEN [ok |-> TRUE, s |-> [s EXCEPT !.invoices = Append(@, s.current_invoice)]]
    ELSE [ok |-> FALSE, s |-> s]

extractor_second_pass_process(s, failed_file, text_lines) ==
    extractor_Conclude(RetryFields(ResetInvoice(s, failed_file), text_lines,
                                   fields_to_retry, FALSE))

\* mutation: the elements before the first occurrence are removed with it
RECURSIVE Remove_Through(_, _)
Remove_Through(q, x) ==
    IF q = <<>> THEN <<>>
    ELSE IF Head(q) = x THEN Tail(q)
    ELSE Remove_Through(Tail(q), x)

\* list.remove(x): the first occurrence
RECURSIVE Remove(_, _)
Remove(q, x) ==
    IF q = <<>> THEN <<>>
    ELSE IF Head(q) = x THEN Tail(q)
    ELSE <<Head(q)>> \o Remove(Tail(q), x)

\* process_failed_files, process_invoice.py:360-372: the instance after the
\* loop over failed_files (todo) and the files that were recovered
RECURSIVE RecoverAll(_, _, _, _)
RecoverAll(s, todo, rows, done) ==
    IF todo = <<>> THEN [s |-> s, done |-> done]
    ELSE \* lines 366-368: the call's instance carried on, its verdict recorded
         RecoverAll(second_pass_process(s, Head(todo), rows).s, Tail(todo), rows,
                    IF second_pass_process(s, Head(todo), rows).ok
                    THEN Append(done, Head(todo)) ELSE done)

RECURSIVE RemoveAll(_, _)
RemoveAll(q, xs) ==
    IF xs = <<>> THEN q ELSE RemoveAll(Remove(q, Head(xs)), Tail(xs))

\* lines 371-372
RemoveRecovered(r) == [r.s EXCEPT !.failed_files = RemoveAll(@, r.done)]

process_failed_files(s, rows) ==
    IF s.failed_files = <<>> THEN s
    ELSE RemoveRecovered(RecoverAll(s, s.failed_files, rows, <<>>))

-----------------------------------------------------------------------------
(* process_csv: src/process_invoice.py:323-351 *)

Init ==
    /\ csv \in Streams(Lines, MaxStream)
    /\ self = NewInstance("InvoiceProcessor")
    /\ pc = "pass1"
    /\ row = 1
    /\ current_source = None
    /\ retry_queue = <<>>
    /\ retry_success = <<>>
    /\ result = None
    /\ log = <<>>
    /\ last_recovery = [f \in Sources |-> None]
    /\ calls = 0
    /\ report = None

\* mutation: every row treated as a document boundary
SourceChanged_Always(cur, source) == TRUE

\* line 329: current_source != row['source']
SourceChanged(cur, source) == cur # Some(source)

\* one iteration of the loop of lines 328-332
ProcessRow ==
    /\ pc = "pass1"
    /\ row <= Len(csv)
    /\ LET r == csv[row]
           boundary == SourceChanged(current_source, r.source)
           s1 == IF boundary THEN finalize_invoice(self) ELSE self
       IN  /\ self' = process_line(s1, r.text, r.source)
           /\ log' = IF boundary THEN log \o FinalizeLog(self) ELSE log
           /\ current_source' = Some(r.source)
    /\ row' = row + 1
    /\ UNCHANGED <<csv, pc, retry_queue, retry_success, result, last_recovery, calls,
                   report>>

\* line 334, and the copy failed_files[:] the retry loop iterates over
EndOfStream ==
    /\ pc = "pass1"
    /\ row > Len(csv)
    /\ self' = finalize_invoice(self)
    /\ log' = log \o FinalizeLog(self)
    /\ retry_queue' = self'.failed_files
    /\ pc' = "retry"
    /\ UNCHANGED <<csv, row, current_source, retry_success, result, last_recovery, calls,
                   report>>

\* the outcome r of a recovery of failed_file, as the caller sees it: the
\* return value, and the record the call built
Observe(r, failed_file) ==
    /\ log' = IF r.ok THEN Append(log, [ev |-> "recovered", src |-> failed_file])
              ELSE log
    /\ last_recovery' = [last_recovery EXCEPT ![failed_file] =
                            Some([ok |-> r.ok, rec |-> r.s.current_invoice])]

\* one iteration of the loop of lines 338-342
RetryFailed ==
    /\ pc = "retry"
    /\ retry_queue # <<>>
    /\ \E r \in {second_pass_process(self, Head(retry_queue), csv)} :
          /\ self' = IF r.ok
                     THEN [r.s EXCEPT !.failed_files = Remove(@, Head(retry_queue))]
                     ELSE r.s
          /\ retry_success' = IF r.ok THEN Append(retry_success, Head(retry_queue))
                              ELSE retry_success
          /\ Observe(r, Head(retry_queue))
    /\ retry_queue' = Tail(retry_queue)
    /\ UNCHANGED <<csv, pc, row, current_source, result, calls, report>>

\* one iteration of the loop of lines 338-342 in which the call raises inside
\* its try block (pd.read_csv('output.csv') fails): the caches were reset
\* before the try (lines 273-276), the except branch of lines 319-321 logs
\* and returns False
RetryFault ==
    /\ pc = "retry"
    /\ retry_queue # <<>>
    /\ self' = ResetCaches(self)
    /\ log' = Append(log, [ev |-> "fault", src |-> Head(retry_queue)])
    /\ retry_queue' = Tail(retry_queue)
    /\ UNCHANGED <<csv, pc, row, current_source, retry_success, result, last_recovery,
                   calls, report>>

\* line 351
ReturnRecords ==
    /\ pc = "retry"
    /\ retry_queue = <<>>
    /\ result' = Some(self.invoices)
    /\ pc' = "returned"
    /\ UNCHANGED <<csv, self, row, current_source, retry_queue, retry_success,
                   log, last_recovery, calls, report>>

\* process_csv as one function of the rows of output.csv, no call raising:
\* the loop of lines 328-332
RECURSIVE Pass1Loop(_, _, _)
Pass1Loop(s, rows, cur) ==
    IF rows = <<>> THEN s
    ELSE Pass1Loop(process_line(IF SourceChanged(cur, Head(rows).source)
                                THEN finalize_invoice(s) ELSE s,
                                Head(rows).text, Head(rows).source),
                   Tail(rows), Some(Head(rows).source))

\* lines 339-341: one recovery, the file removed from failed_files when it
\* succeeds
RetryStep(s, failed_file, rows) ==
    IF second_pass_process(s, failed_file, rows).ok
    THEN [second_pass_process(s, failed_file, rows).s
             EXCEPT !.failed_files = Remove(@, failed_file)]
    ELSE second_pass_process(s, failed_file, rows).s

\* the loop of lines 338-342 over the copy failed_files[:] (todo)
RECURSIVE RetryLoop(_, _, _)
RetryLoop(s, todo, rows) ==
    IF todo = <<>> THEN s
    ELSE \* the instance after this iteration is computed before the next one
         CHOOSE out \in {RetryLoop(next, Tail(todo), rows) :
                            next \in {RetryStep(s, Head(todo), rows)}} : TRUE

\* lines 334-351: the instance when process_csv returns; the frame returned
\* holds its invoices
AfterPass1(inst, rows) == RetryLoop(inst, inst.failed_files, rows)

process_csv(rows) ==
    AfterPass1(finalize_invoice(Pass1Loop(NewInstance("InvoiceProcessor"), rows, None)),
               rows)

-----------------------------------------------------------------------------
(* main: src/process_invoice.py:374-427 *)

\* DataFrame.drop_duplicates(subset=[key]): the first row of every value of
\* the column is kept, in frame order
RECURSIVE DropDuplicatesFrom(_, _, _)
DropDuplicatesFrom(rows, key, seen) ==
    IF rows = <<>> THEN <<>>
    ELSE IF Head(rows)[key] \in seen THEN DropDuplicatesFrom(Tail(rows), key, seen)
    ELSE <<Head(rows)>> \o DropDuplicatesFrom(Tail(rows), key, seen \cup {Head(rows)[key]})

drop_duplicates(rows, key) == DropDuplicatesFrom(rows, key, {})

\* DataFrame.dropna(subset=['发票号', '总金额'])
RECURSIVE dropna(_)
dropna(rows) ==
    IF rows = <<>> THEN <<>>
    ELSE (IF ~IsNone(Head(rows).invoice_no) /\ ~IsNone(Head(rows).total)
          THEN <<Head(rows)>> ELSE <<>>) \o dropna(Tail(rows))

\* mutation: only the later rows of a repeated value are marked
duplicated_KeepFirst(rows, key) ==
    [k \in 1..Len(rows) |-> \E j \in 1..(k - 1) : rows[j][key] = rows[k][key]]

\* DataFrame.duplicated(subset=[key], keep=False): the mask of the rows whose
\* value of the column occurs in another row too
duplicated(rows, key) ==
    [k \in 1..Len(rows) |-> \E j \in 1..Len(rows) : j # k /\ rows[j][key] = rows[k][key]]

\* frame[mask]
RECURSIVE Masked(_, _, _)
Masked(rows, mask, k) ==
    IF k > Len(rows) THEN <<>>
    ELSE (IF mask[k] THEN <<rows[k]>> ELSE <<>>) \o Masked(rows, mask, k + 1)

\* lines 426-427: the except branch, nothing derived
ErrorReport ==
    [error |-> TRUE, result_df |-> <<>>, valid_invoices |-> <<>>,
     unique_invoices |-> <<>>, duplicate_invoices |-> <<>>,
     total_invoices |-> 0, valid_count |-> 0,
     remaining_failed_files |-> {}, failed_invoices_txt |-> None]

\* lines 389-421, the valid invoices given
ReportValid(result_df, valid_invoices, failed_files) ==
    [error |-> FALSE,
     result_df |-> result_df,
     valid_invoices |-> valid_invoices,
     unique_invoices |-> drop_duplicates(valid_invoices, "invoice_no"),
     duplicate_invoices |->
         Masked(valid_invoices, duplicated(valid_invoices, "invoice_no"), 1),
     total_invoices |-> Len(result_df),
     valid_count |-> Len(drop_duplicates(valid_invoices, "invoice_no")),
     remaining_failed_files |->
         Range(failed_files) \ {Val(valid_invoices[k].path) : k \in 1..Len(valid_invoices)},
     failed_invoices_txt |-> IF failed_files # <<>> THEN Some(failed_files) ELSE None]

\* lines 385-386, the frame without repeated paths given
ReportFrame(result_df, failed_files) ==
    ReportValid(result_df, dropna(result_df), failed_files)

\* lines 384-427 on the records process_csv returned.  A frame built from no
\* record has no columns: dropna(subset=...) raises KeyError, caught at 426.
main_report(records, failed_files) ==
    IF records = <<>> THEN ErrorReport
    ELSE ReportFrame(drop_duplicates(records, "path"), failed_files)

Main ==
    /\ pc = "returned"
    /\ report' = Some(main_report(Val(result), self.failed_files))
    /\ pc' = "reported"
    /\ UNCHANGED <<csv, self, row, current_source, retry_queue, retry_success,
                   result, log, last_recovery, calls>>

Next == ProcessRow \/ EndOfStream \/ RetryFailed \/ RetryFault \/ ReturnRecords \/ Main

Spec == Init /\ [][Next]_vars

\* main on streams of documents that one line suffices to recover
InitMain ==
    /\ csv \in Streams(MainLines, MaxMainStream)
    /\ self = NewInstance("InvoiceProcessor")
    /\ pc = "pass1"
    /\ row = 1
    /\ current_source = None
    /\ retry_queue = <<>>
    /\ retry_success = <<>>
    /\ result = None
    /\ log = <<>>
    /\ last_recovery = [f \in Sources |-> None]
    /\ calls = 0
    /\ report = None

SpecMain == InitMain /\ [][Next]_vars

\* process_csv on streams of lines that the field rules of pass 1 read
InitFields ==
    /\ csv \in Streams(FieldLines, MaxFieldStream)
    /\ self = NewInstance("InvoiceProcessor")
    /\ pc = "pass1"
    /\ row = 1
    /\ current_source = None
    /\ retry_queue = <<>>
    /\ retry_success = <<>>
    /\ result = None
    /\ log = <<>>
    /\ last_recovery = [f \in Sources |-> None]
    /\ calls = 0
    /\ report = None

SpecFields == InitFields /\ [][Next]_vars

\* process_csv on streams of two lines, one line for every field rule
InitLocal ==
    /\ csv \in Streams(LocalLines, MaxLocalStream)
    /\ self = NewInstance("InvoiceProcessor")
    /\ pc = "pass1"
    /\ row = 1
    /\ current_source = None
    /\ retry_queue = <<>>
    /\ retry_success = <<>>
    /\ result = None
    /\ log = <<>>
    /\ last_recovery = [f \in Sources |-> None]
    /\ calls = 0
    /\ report = None

SpecLocal == InitLocal /\ [][Next]_vars

-----------------------------------------------------------------------------
(* A client that drives one instance through its public methods in any     *)
(* order: process_line on the rows of output.csv, finalize_invoice,        *)
(* second_pass_process and process_failed_files.                           *)

InitApi ==
    /\ csv \in Streams(ApiLines, MaxApiStream)
    /\ \E cls \in {"InvoiceProcessor", "InvoiceExtractor"} : self = NewInstance(cls)
    /\ pc = "client"
    /\ row = 1
    /\ current_source = None
    /\ retry_queue = <<>>
    /\ retry_success = <<>>
    /\ result = None
    /\ log = <<>>
    /\ last_recovery = [f \in Sources |-> None]
    /\ calls = 0
    /\ report = None

ClientFrame ==
    UNCHANGED <<csv, pc, row, current_source, retry_queue, retry_success, result, report>>

CallProcessLine ==
    /\ pc = "client" /\ calls < MaxCalls
    /\ \E k \in 1..Len(csv) : self' = process_line(self, csv[k].text, csv[k].source)
    /\ calls' = calls + 1
    /\ UNCHANGED <<log, last_recovery>>
    /\ ClientFrame

CallFinalize ==
    /\ pc = "client" /\ calls < MaxCalls
    /\ self' = finalize_invoice(self)
    /\ log' = log \o FinalizeLog(self)
    /\ calls' = calls + 1
    /\ UNCHANGED last_recovery
    /\ ClientFrame

CallSecondPass ==
    /\ pc = "client" /\ calls < MaxCalls
    /\ self.cls = "InvoiceProcessor"
    /\ \E failed_file \in Sources :
          \E r \in {second_pass_process(self, failed_file, csv)} :
              /\ self' = r.s
              /\ Observe(r, failed_file)
    /\ calls' = calls + 1
    /\ ClientFrame

CallExtractorSecondPass ==
    /\ pc = "client" /\ calls < MaxCalls
    /\ self.cls = "InvoiceExtractor"
    /\ \E failed_file \in Sources :
          \E r \in {extractor_second_pass_process(self, failed_file,
                                                   LinesOf(csv, failed_file))} :
              /\ self' = r.s
              /\ Observe(r, failed_file)
    /\ calls' = calls + 1
    /\ ClientFrame

CallProcessFailedFiles ==
    /\ pc = "client" /\ calls < MaxCalls
    /\ self.cls = "InvoiceProcessor"
    /\ self' = process_failed_files(self, csv)
    /\ calls' = calls + 1
    /\ UNCHANGED <<log, last_recovery>>
    /\ ClientFrame

NextApi ==
    \/ CallProcessLine
    \/ CallFinalize
    \/ CallSecondPass
    \/ CallExtractorSecondPass
    \/ CallProcessFailedFiles

SpecApi == InitApi /\ [][NextApi]_vars

-----------------------------------------------------------------------------
(* A client that hands one document (source a.pdf) to the recovery:        *)
(* second_pass_process on the lines of the document, on either class.      *)

Documents(lines, n) == UNION {[1..k -> lines] : k \in 0..n}

RowsOf(text_lines, source) ==
    [k \in 1..Len(text_lines) |-> [text |-> text_lines[k], source |-> source]]

InitRecover ==
    /\ \E text_lines \in Documents(RecoverLines, MaxDoc) : csv = RowsOf(text_lines, "a.pdf")
    /\ \E cls \in {"InvoiceProcessor", "InvoiceExtractor"} : self = NewInstance(cls)
    /\ pc = "client"
    /\ row = 1
    /\ current_source = None
    /\ retry_queue = <<>>
    /\ retry_success = <<>>
    /\ result = None
    /\ log = <<>>
    /\ last_recovery = [f \in Sources |-> None]
    /\ calls = 0
    /\ report = None

NextRecover == CallSecondPass \/ CallExtractorSecondPass

SpecRecover == InitRecover /\ [][NextRecover]_vars

-----------------------------------------------------------------------------
(* Properties *)

\* the acceptance condition as the specification words it: invoice number
\* present, total present, 0 < total < 1,000,000 (amounts in cents)
AcceptancePredicate(rec) ==
    /\ rec.invoice_no # None
    /\ rec.total # None
    /\ 0 < rec.total[1]
    /\ rec.total[1] < 1000000 * 100

\* the log records of finalize_invoice
RECURSIVE FinalizeEvents(_)
FinalizeEvents(l) ==
    IF l = <<>> THEN <<>>
    ELSE (IF Head(l).ev \in {"accepted", "rejected"} THEN <<Head(l)>> ELSE <<>>)
            \o FinalizeEvents(Tail(l))

\* this step logged a finalization
FinalizeStep ==
    /\ Len(log') = Len(log) + 1
    /\ log'[Len(log')].ev \in {"accepted", "rejected"}

\* the sources of the document segments (contiguous runs of one source) of rows
RECURSIVE SegmentSources(_)
SegmentSources(rows) ==
    IF rows = <<>> THEN <<>>
    ELSE LET rest == SegmentSources(Tail(rows))
         IN  IF rest # <<>> /\ Head(rest) = Head(rows).source THEN rest
             ELSE <<Head(rows).source>> \o rest

\* index of the first row of the segment that row k belongs to
RECURSIVE SegmentStart(_, _)
SegmentStart(rows, k) ==
    IF k > 1 /\ rows[k - 1].source = rows[k].source THEN SegmentStart(rows, k - 1) ELSE k

\* the indices of the rows of the segment that ends at row k
SegmentRows(rows, k) == SegmentStart(rows, k)..k

NoDuplicates(q) == \A i, j \in 1..Len(q) : q[i] = q[j] => i = j

RecordsOf(invs, source) == {k \in 1..Len(invs) : invs[k].path = Some(source)}

-----------------------------------------------------------------------------
\* C1: when process_csv has returned and the finalization issued at the end
\* of the stream accepted the last document, the returned records contain an
\* accepted record of that document.
C1_FinalDocumentEmitted ==
    (pc = "returned" /\ csv # <<>>) =>
        LET events == FinalizeEvents(log)
            last == events[Len(events)]
        IN  last.ev = "accepted" =>
                \E k \in RecordsOf(Val(result), last.src) :
                    AcceptancePredicate(Val(result)[k])

\* C2: a finalization accepts the record it evaluates exactly when the
\* invoice number is present, the total is present and 0 < total < 1,000,000;
\* otherwise it rejects it and the document is in failed_files.
C2_AcceptIffPredicate ==
    [][FinalizeStep =>
          LET rec == self.current_invoice
              e == log'[Len(log')]
          IN  /\ e.src = rec.path[1]
              /\ (e.ev = "accepted") <=> AcceptancePredicate(rec)
              /\ (e.ev = "rejected") <=> ~AcceptancePredicate(rec)
              /\ e.ev = "rejected" => InSeq(e.src, self'.failed_files)
              /\ e.ev = "accepted" => self'.failed_files = self.failed_files]_vars

\* C2 witness: the end-of-stream finalization has just rejected a document
\* whose invoice number is present and whose total is exactly 1,000,000.00
C2_Witness ==
    /\ pc = "retry"
    /\ retry_queue = self.failed_files
    /\ self.current_invoice.invoice_no # None
    /\ self.current_invoice.total = Some(MaxAmount)
    /\ log # <<>>
    /\ log[Len(log)] = [ev |-> "rejected", src |-> self.current_invoice.path[1]]
    /\ InSeq(self.current_invoice.path[1], self.failed_files)

\* C3: every record among the returned records satisfies the acceptance
\* predicate (it was accepted in pass 1 or built by a successful recovery);
\* no rejected accumulator is among them.
C3_RejectedDiscarded ==
    pc = "returned" =>
        \A k \in 1..Len(Val(result)) : AcceptancePredicate(Val(result)[k])

-----------------------------------------------------------------------------
\* the line triggers the total rule and an amount is extracted from it
TotalTriggered(text) ==
    Range(text) \cap TotalKeywords # {} /\ extract_amount(text) # None

\* the amounts extracted from the total-triggering lines of the document
\* segment in flight (rows SegmentStart .. row - 1)
SegmentAmounts ==
    {extract_amount(csv[j].text)[1] :
        j \in {i \in SegmentRows(csv, row - 1) : TotalTriggered(csv[i].text)}}

\* within one document the total, once set, stays set and does not decrease
TotalNeverDecreases ==
    (pc = "pass1" /\ pc' = "pass1"
       /\ self'.current_invoice.path = self.current_invoice.path
       /\ self.current_invoice.total # None)
    => /\ self'.current_invoice.total # None
       /\ self'.current_invoice.total[1] >= self.current_invoice.total[1]

C4_TotalIsMaxState ==
    (pc = "pass1" /\ row > 1) =>
        self.current_invoice.total =
            IF SegmentAmounts = {} THEN None ELSE Some(Max(SegmentAmounts))

C4_TotalIsMaxNonZeroState ==
    (pc = "pass1" /\ row > 1) =>
        self.current_invoice.total =
            IF SegmentAmounts \ {0} = {} THEN None ELSE Some(Max(SegmentAmounts \ {0}))

\* C4 as claimed: during pass 1 the total of the document in flight never
\* decreases and equals the maximum of the amounts extracted from the
\* total-triggering lines seen so far.
C4_TotalIsMax == [](C4_TotalIsMaxState) /\ [][TotalNeverDecreases]_vars

\* C4 amended: during pass 1 the total of the document in flight never
\* decreases and equals the maximum of the non-zero amounts extracted from
\* the total-triggering lines seen so far; it is unset while there is none.
C4_TotalIsMaxNonZero == [](C4_TotalIsMaxNonZeroState) /\ [][TotalNeverDecreases]_vars

\* C4 witness: two total-triggering lines of one document have been
\* processed, the larger amount first, and the total is the larger one
C4_Witness ==
    /\ pc = "pass1"
    /\ row > 2
    /\ csv[row - 2].source = csv[row - 1].source
    /\ TotalTriggered(csv[row - 2].text)
    /\ TotalTriggered(csv[row - 1].text)
    /\ extract_amount(csv[row - 1].text)[1] > 0
    /\ extract_amount(csv[row - 2].text)[1] > extract_amount(csv[row - 1].text)[1]
    /\ self.current_invoice.total = extract_amount(csv[row - 2].text)

\* C5: failed_files never holds a source twice, and a finalization that
\* rejects a record leaves the source of the record in failed_files.
C5_FailedSet ==
    /\ [](NoDuplicates(self.failed_files))
    /\ [][(FinalizeStep /\ log'[Len(log')].ev = "rejected")
             => InSeq(log'[Len(log')].src, self'.failed_files)]_vars

\* C5 witness: the same source was rejected by two finalizations and is in
\* failed_files once
C5_Witness ==
    \E f \in Sources :
        /\ Cardinality({k \in 1..Len(log) : log[k] = [ev |-> "rejected", src |-> f]}) >= 2
        /\ Cardinality({k \in 1..Len(self.failed_files) : self.failed_files[k] = f}) = 1

\* the sources of the finalizations logged so far, in order
FinalizedSources ==
    LET events == FinalizeEvents(log)
    IN  [k \in 1..Len(events) |-> events[k].src]

\* C6: in process_csv the finalizations logged are, in order, one per closed
\* document segment: while rows are being read, one for every segment but the
\* one in flight (none at all, and no failed file, while the first segment is
\* in flight); after the end-of-stream call, one for every segment.
C6_OncePerSegment ==
    LET segs == SegmentSources(SubSeq(csv, 1, row - 1))
    IN  IF pc = "pass1"
        THEN /\ FinalizedSources =
                    IF segs = <<>> THEN <<>> ELSE SubSeq(segs, 1, Len(segs) - 1)
             /\ Len(segs) <= 1 => (log = <<>> /\ self.failed_files = <<>>)
        ELSE FinalizedSources = SegmentSources(csv)

\* C6 witness: a run over three segments (the first source returns after
\* another one) has ended with three finalizations
C6_Witness ==
    /\ pc = "returned"
    /\ Len(csv) = 3
    /\ csv[1].source = csv[3].source
    /\ csv[1].source # csv[2].source
    /\ Len(FinalizedSources) = 3

Recovered(f) == InSeq([ev |-> "recovered", src |-> f], log)

\* C7: once the recovery of a file has succeeded in process_csv, the file is
\* not in failed_files in any later state, and the records hold exactly one
\* record of the file, the one the recovery built; so do the returned records.
C7_RecoveredReplaces ==
    \A f \in Sources :
        Recovered(f) =>
            /\ ~InSeq(f, self.failed_files)
            /\ \E k \in 1..Len(self.invoices) :
                  /\ RecordsOf(self.invoices, f) = {k}
                  /\ self.invoices[k] = last_recovery[f][1].rec
            /\ pc = "returned" => Val(result) = self.invoices

\* C7 witness: a file whose rejected pass-1 record had been retained (its
\* segment was closed by a row of another source) has been recovered
C7_Witness ==
    /\ pc = "returned"
    /\ \E f \in Sources :
          /\ Recovered(f)
          /\ \E j \in 1..(Len(csv) - 1) : csv[j].source = f /\ csv[j + 1].source # f

\* C8: a recovery call returns success exactly when the record it built
\* satisfies the acceptance predicate.
C8_RecoverySuccessIffPredicate ==
    \A f \in Sources :
        last_recovery[f] # None =>
            (last_recovery[f][1].ok <=> AcceptancePredicate(last_recovery[f][1].rec))

\* C8 witness: an InvoiceProcessor recovery has succeeded, and another one
\* has failed
C8_Witness ==
    /\ self.cls = "InvoiceProcessor"
    /\ \E f, g \in Sources :
          /\ last_recovery[f] # None /\ last_recovery[f][1].ok
          /\ last_recovery[g] # None /\ ~last_recovery[g][1].ok

\* what a recovery of the file returns and builds on a new instance
FreshRecovery(cls, f) ==
    LET r == IF cls = "InvoiceProcessor"
             THEN second_pass_process(NewInstance(cls), f, csv)
             ELSE extractor_second_pass_process(NewInstance(cls), f, LinesOf(csv, f))
    IN  [ok |-> r.ok, rec |-> r.s.current_invoice]

\* C9: the result of a recovery call does not depend on the recoveries made
\* before it on the same instance: it is what a new instance returns and
\* builds for the file.
C9_RecoveryIndependentOfHistory ==
    \A f \in Sources :
        last_recovery[f] # None => last_recovery[f][1] = FreshRecovery(self.cls, f)

\* C10: a later recovery of a file (same lines) returns the same result and
\* builds the same record as the earlier one.
C10_RecoveryIdempotent ==
    [][\A f \in Sources :
          last_recovery[f] # None => last_recovery'[f] = last_recovery[f]]_vars

-----------------------------------------------------------------------------
\* the value of a field of a recovered record can be read off the lines:
\* the invoice number and the tax rate are the ones the scans of the lines
\* find, the buyer is the name a line carries, the total is one of the
\* numbers of the lines; no other field is set by a recovery
FromLines(rec, f, text_lines) ==
    /\ rec.path = Some(f)
    /\ rec.invoice_no # None => rec.invoice_no = RetryInvoiceNumber(text_lines)
    /\ rec.tax_rate # None => rec.tax_rate = ScanTaxRate(text_lines)
    /\ rec.buyer # None => rec.buyer = RetryBuyer(text_lines)
    /\ rec.total # None => rec.total[1] \in CandidateAmounts(text_lines)
    /\ \A k \in {"buyer_tax_id", "seller", "seller_tax_id", "invoice_code",
                 "check_code", "date", "sales"} : rec[k] = None

\* C11: the record a recovery call builds holds, besides the source, only
\* values derived from the lines of that document: nothing of an accumulator
\* filled before the call, for this or another document, is in it.
C11_RecoveryFromOwnLines ==
    \A f \in Sources :
        last_recovery[f] # None =>
            FromLines(last_recovery[f][1].rec, f, LinesOf(csv, f))

-----------------------------------------------------------------------------
\* the subtotals of the candidate set whose expected total, at the rate, is
\* a candidate too
Subtotals(amounts, p) ==
    {c \in Range(amounts) : RoundedTotal(c, p) \in Range(amounts)}

\* C12: after a recovery with a detected rate r and the candidate set A, a
\* pair was found exactly when some s in A has round(s * (1 + r), 2) in A;
\* the subtotal is then the smallest such s and the total that rounded value,
\* which is the total of the record; otherwise the record has no total and
\* no subtotal.
C12_SmallestSubtotal ==
    (calls > 0 /\ self.cached_tax_rate # None /\ self.cached_amounts # None) =>
        LET p == self.cached_tax_rate[1]
            S == Subtotals(self.cached_amounts[1], p)
        IN  IF S = {}
            THEN /\ ~self.found_match
                 /\ self.current_invoice.total = None
                 /\ self.current_invoice.sales = None
            ELSE /\ self.found_match
                 /\ self.cached_sales_amount = Some(Min(S))
                 /\ self.cached_total_amount = Some(RoundedTotal(Min(S), p))
                 /\ self.current_invoice.total = self.cached_total_amount

\* C12 witness: the candidates hold two pairs at 6 percent, (50.00, 53.00)
\* and (100.00, 106.00), and the recovery took the smaller one
C12_Witness ==
    /\ calls > 0
    /\ self.cached_tax_rate = Some(6)
    /\ self.cached_amounts = Some(<<600, 5000, 5300, 10000, 10600>>)
    /\ self.cached_sales_amount = Some(5000)
    /\ self.current_invoice.total = Some(5300)

-----------------------------------------------------------------------------
\* C13: in every record built by a recovery the subtotal and the total are
\* set together: when the search found a pair both are set, to the two
\* values of the pair, and otherwise neither is.
C13_BothOrNeither ==
    \A f \in Sources :
        last_recovery[f] # None =>
            LET rec == last_recovery[f][1].rec
            IN  /\ (rec.total # None) <=> (rec.sales # None)
                /\ last_recovery[f][1].ok => (rec.total # None /\ rec.sales # None)

-----------------------------------------------------------------------------
\* the natural sort order of the source names: a.pdf before b.pdf
SourceRank(f) == IF f = "a.pdf" THEN 1 ELSE 2

\* main has derived its frames
Reported == pc = "reported" /\ ~report[1].error

\* C14: of the valid records that share an invoice number, the one kept among
\* the unique invoices has the smallest source in natural order, whatever the
\* order of the documents in the stream.
C14_SmallestSourceKept ==
    Reported =>
        LET valid == report[1].valid_invoices
            unique == report[1].unique_invoices
        IN  \A k \in 1..Len(unique) : \A j \in 1..Len(valid) :
                valid[j].invoice_no = unique[k].invoice_no =>
                    SourceRank(Val(unique[k].path)) <= SourceRank(Val(valid[j].path))

\* the invoice numbers of the rows of a frame
NumbersOf(rows) == {rows[k].invoice_no : k \in 1..Len(rows)}

\* C15: the unique invoices hold exactly one record for every invoice number
\* of the valid records (none twice, none missing, every one a valid record),
\* and the duplicate invoices are exactly the valid records whose invoice
\* number another valid record carries too, each listed once.
C15_OnePerNumber ==
    Reported =>
        LET valid == report[1].valid_invoices
            unique == report[1].unique_invoices
            dup == report[1].duplicate_invoices
            shared == {k \in 1..Len(valid) :
                         \E j \in 1..Len(valid) :
                             j # k /\ valid[j].invoice_no = valid[k].invoice_no}
        IN  /\ \A i, j \in 1..Len(unique) :
                  unique[i].invoice_no = unique[j].invoice_no => i = j
            /\ NumbersOf(unique) = NumbersOf(valid)
            /\ Range(unique) \subseteq Range(valid)
            /\ report[1].valid_count = Cardinality(NumbersOf(valid))
            /\ Range(dup) = {valid[k] : k \in shared}
            /\ Len(dup) = Cardinality(shared)

\* C15 witness: two valid records of different sources share their invoice
\* number; one is kept as unique and both are listed as duplicates
C15_Witness ==
    /\ Reported
    /\ Len(report[1].valid_invoices) = 2
    /\ report[1].valid_invoices[1].path # report[1].valid_invoices[2].path
    /\ report[1].valid_invoices[1].invoice_no = report[1].valid_invoices[2].invoice_no
    /\ Len(report[1].unique_invoices) = 1
    /\ Len(report[1].duplicate_invoices) = 2

-----------------------------------------------------------------------------
\* the recovery of f returned failure in this step of the retry loop of
\* process_csv: no acceptable record, or an error inside the call
RecoveryFailedStep ==
    /\ pc = "retry" /\ retry_queue # <<>>
    /\ \/ /\ last_recovery'[Head(retry_queue)] # None
          /\ ~last_recovery'[Head(retry_queue)][1].ok
          /\ log' = log
       \/ log' = Append(log, [ev |-> "fault", src |-> Head(retry_queue)])

\* a failed recovery leaves the failed files and the records as they were,
\* and the loop goes on with the rest of the queue
FailureIsData ==
    RecoveryFailedStep =>
        /\ self'.failed_files = self.failed_files
        /\ InSeq(Head(retry_queue), self'.failed_files)
        /\ self'.invoices = self.invoices
        /\ pc' = "retry"
        /\ retry_queue' = Tail(retry_queue)

\* the sources a finalization rejected
RejectedSources == {log[k].src : k \in {j \in 1..Len(log) : log[j].ev = "rejected"}}

\* the recovery of f was attempted and did not succeed
RecoveryFailed(f) ==
    /\ ~Recovered(f)
    /\ \/ last_recovery[f] # None
       \/ InSeq([ev |-> "fault", src |-> f], log)

\* once the loop has ended the recovery of every rejected document has been
\* attempted, whatever became of the others, and the ones whose recovery
\* failed are the failed files the caller finds
AllAttempted ==
    pc \in {"returned", "reported"} =>
        /\ \A f \in RejectedSources : Recovered(f) \/ RecoveryFailed(f)
        /\ Range(self.failed_files) = {f \in RejectedSources : RecoveryFailed(f)}

-----------------------------------------------------------------------------
\* a valid invoice-number line: the label, a colon, digits
IsNumberLine(text) ==
    /\ Len(text) >= 3
    /\ text[1] = "FPHM"
    /\ text[2] \in Colons
    /\ \A k \in 3..Len(text) : text[k] \in Digits

\* a total-triggering line that carries one amount with two decimals, in
\* cents (0 when the line is not of that form): a text without digits, then
\* digits, a point and two digits
CarriedAmount(text) ==
    LET n == Len(text)
        first == CHOOSE k \in 1..(n + 1) :
                     /\ \A j \in 1..(k - 1) : text[j] \notin Digits \cup {"."}
                     /\ k <= n => text[k] \in Digits \cup {"."}
    IN  IF /\ first >= 2 /\ first <= n - 3
           /\ \A j \in first..(n - 3) : text[j] \in Digits
           /\ text[n - 2] = "."
           /\ text[n - 1] \in Digits /\ text[n] \in Digits
           /\ n - 3 - first < 7
        THEN 100 * DigitsToNat(SubSeq(text, first, n - 3))
                 + DigitsToNat(SubSeq(text, n - 1, n))
        ELSE 0

IsTriggerLine(text) == Range(text) \cap TotalKeywords # {}

\* the rows of the segment that the finalization of this step evaluates
ClosedSegment == SegmentRows(csv, row - 1)

\* C17: when the segment a finalization closes has exactly one valid
\* invoice-number line and exactly one total-triggering line, and that line
\* carries a two-decimal amount in (0, 1,000,000), the record evaluated has
\* those digits as invoice number and that amount as total, and it is
\* accepted.
C17_NumberAndTotalAccepted ==
    [][(FinalizeStep /\ row > 1) =>
          \A i, j \in ClosedSegment :
              (/\ {k \in ClosedSegment : IsNumberLine(csv[k].text)} = {i}
               /\ {k \in ClosedSegment : IsTriggerLine(csv[k].text)} = {j}
               /\ 0 < CarriedAmount(csv[j].text)
               /\ CarriedAmount(csv[j].text) < MaxAmount)
              => /\ self.current_invoice.invoice_no =
                        Some(SubSeq(csv[i].text, 3, Len(csv[i].text)))
                 /\ self.current_invoice.total = Some(CarriedAmount(csv[j].text))
                 /\ log'[Len(log')] = [ev |-> "accepted", src |-> csv[i].source]]_vars

\* C17 witness: a document of three lines, the total line first and the
\* number line last, has been accepted by the end-of-stream finalization
C17_Witness ==
    /\ pc = "retry"
    /\ Len(csv) = 3
    /\ csv[1].source = csv[2].source /\ csv[2].source = csv[3].source
    /\ IsTriggerLine(csv[1].text) /\ CarriedAmount(csv[1].text) = 11300
    /\ ~IsTriggerLine(csv[2].text) /\ ~IsNumberLine(csv[2].text)
    /\ IsNumberLine(csv[3].text)
    /\ log = <<[ev |-> "accepted", src |-> csv[1].source]>>
    /\ self.current_invoice.total = Some(11300)

-----------------------------------------------------------------------------
\* the first element of a sequence of optional values that is set
RECURSIVE FirstSet(_)
FirstSet(opts) ==
    IF opts = <<>> THEN None
    ELSE IF ~IsNone(Head(opts)) THEN Head(opts)
    ELSE FirstSet(Tail(opts))

\* the labeled match of a line, when it is long enough to be a number
LabeledLong(line) ==
    IF ~IsNone(LabeledNumber(line)) /\ Len(Val(LabeledNumber(line))) >= MinNumberLength
    THEN LabeledNumber(line) ELSE None

\* the cascade evaluated pattern-first: the labeled pattern over every line,
\* and only then the bare pattern over every line
PatternFirstNumber(text_lines) ==
    IF ~IsNone(FirstSet([k \in 1..Len(text_lines) |-> LabeledLong(text_lines[k])]))
    THEN FirstSet([k \in 1..Len(text_lines) |-> LabeledLong(text_lines[k])])
    ELSE FirstSet([k \in 1..Len(text_lines) |-> BareNumber(text_lines[k])])

\* C18: the invoice number of a record built by recovery is the result of
\* the cascade evaluated pattern-first over the lines of the document: a
\* labeled match on any line wins over a bare 20-digit match, also one on an
\* earlier line.
C18_PatternFirst ==
    \A f \in Sources :
        last_recovery[f] # None =>
            last_recovery[f][1].rec.invoice_no = PatternFirstNumber(LinesOf(csv, f))

-----------------------------------------------------------------------------
\* the line would set the field in pass 1: the field rules of process_line,
\* applied to the line on an empty accumulator, set it
WouldSet(field, line) == UpdateFields(EmptyInvoice, line)[field] # None

\* C19: when some line of the document would set the date, the buyer name or
\* the seller name in pass 1, the record built by a recovery of the document
\* by InvoiceProcessor has that field set.
C19_Pass1FieldsRecovered ==
    \A f \in Sources :
        (self.cls = "InvoiceProcessor" /\ last_recovery[f] # None) =>
            \A k \in 1..Len(LinesOf(csv, f)) :
                \A field \in {"date", "buyer", "seller"} :
                    WouldSet(field, LinesOf(csv, f)[k])
                        => last_recovery[f][1].rec[field] # None

-----------------------------------------------------------------------------
\* every percent value of a line, left to right: the digit runs that a
\* percent sign follows
RECURSIVE PercentValuesFrom(_, _)
PercentValuesFrom(line, k) ==
    IF k > Len(line) THEN <<>>
    ELSE IF line[k] \notin Digits THEN PercentValuesFrom(line, k + 1)
    ELSE IF RunEnd(line, k, Digits) <= Len(line) /\ line[RunEnd(line, k, Digits)] = "%"
    THEN <<Slice(line, k, RunEnd(line, k, Digits))>>
             \o PercentValuesFrom(line, RunEnd(line, k, Digits) + 1)
    ELSE PercentValuesFrom(line, RunEnd(line, k, Digits))

\* the percent values of a document in scan order
RECURSIVE AllPercents(_)
AllPercents(text_lines) ==
    IF text_lines = <<>> THEN <<>>
    ELSE PercentValuesFrom(Head(text_lines), 1) \o AllPercents(Tail(text_lines))

\* the percent value lies in the open interval (0, 100)
InPercentRange(ds) ==
    /\ Len(StripZeros(ds)) <= 2
    /\ 0 < DigitsToNat(StripZeros(ds))
    /\ DigitsToNat(StripZeros(ds)) < 100

\* the first percent value of the sequence in (0, 100), in hundredths
RECURSIVE FirstRate(_)
FirstRate(values) ==
    IF values = <<>> THEN None
    ELSE IF InPercentRange(Head(values)) THEN Some(DigitsToNat(StripZeros(Head(values))))
    ELSE FirstRate(Tail(values))

\* C20: the tax rate of a record built by a recovery of InvoiceProcessor is
\* the first percent value of the document, in scan order over all its
\* lines, that lies in (0, 100); when the document has no such value the
\* rate is unset, no total is reconciled and the recovery fails.
C20_FirstPercentInRange ==
    \A f \in Sources :
        (self.cls = "InvoiceProcessor" /\ last_recovery[f] # None) =>
            /\ last_recovery[f][1].rec.tax_rate = FirstRate(AllPercents(LinesOf(csv, f)))
            /\ FirstRate(AllPercents(LinesOf(csv, f))) = None
                   => /\ last_recovery[f][1].rec.total = None
                      /\ ~last_recovery[f][1].ok

-----------------------------------------------------------------------------
\* a tax rate, in hundredths, lies strictly between 0 and 1
RateInUnit(rate) == rate # None => (0 < rate[1] /\ rate[1] < 100)

\* C21: whenever the tax rate of a record is set (the accumulator of pass 1
\* after any line, a record of the list, a record built by recovery) it lies
\* strictly between 0 and 1.
C21_RateInUnitInterval ==
    /\ RateInUnit(self.current_invoice.tax_rate)
    /\ \A k \in 1..Len(self.invoices) : RateInUnit(self.invoices[k].tax_rate)
    /\ \A f \in Sources :
           last_recovery[f] # None => RateInUnit(last_recovery[f][1].rec.tax_rate)

-----------------------------------------------------------------------------
\* the fields of a record other than the source and the total
LocalFields ==
    {"buyer", "buyer_tax_id", "seller", "seller_tax_id", "invoice_code",
     "invoice_no", "check_code", "date", "sales", "tax_rate"}

\* the step of process_csv that hands row `row` to process_line leaves, in
\* every field of the set that the line would set on an empty accumulator,
\* the value the line sets on an empty accumulator
LineLocalStep(fields) ==
    ProcessRow =>
        \A field \in fields :
            WouldSet(field, csv[row].text)
                => self'.current_invoice[field]
                       = UpdateFields(EmptyInvoice, csv[row].text)[field]

\* C22 as claimed: for every field other than the total, the value the
\* field holds after a line that sets it depends on the text of that line
\* only, not on what earlier lines of the document left in the accumulator.
C22_LineLocal == [][LineLocalStep(LocalFields)]_vars

\* C22 amended: for every field other than the total and the two tax IDs,
\* the value the field holds after a line that sets it depends on the text
\* of that line only.
C22_LineLocalButTaxIds ==
    [][LineLocalStep(LocalFields \ {"buyer_tax_id", "seller_tax_id"})]_vars

\* C22 witness: the second of two lines of one document that set different
\* tax rates has been processed, and the rate is the one of the second line
C22_Witness ==
    /\ pc = "pass1"
    /\ row = 3
    /\ csv[1].source = csv[2].source
    /\ WouldSet("tax_rate", csv[1].text)
    /\ WouldSet("tax_rate", csv[2].text)
    /\ extract_tax_rate(csv[1].text) # extract_tax_rate(csv[2].text)
    /\ self.current_invoice.tax_rate = extract_tax_rate(csv[2].text)

-----------------------------------------------------------------------------
\* a matching tax-ID line: one of the two labels, a colon, an alphanumeric run
IsTaxIdLine(text) ==
    /\ Len(text) >= 3
    /\ text[1] \in {"NSRSBH", "TYSHXYDM"}
    /\ text[2] \in Colons
    /\ \A k \in 3..Len(text) : text[k] \in Digits \cup Upper

\* the rows of the document segment in flight that are matching tax-ID lines
SegmentTaxIdRows == {k \in SegmentRows(csv, row - 1) : IsTaxIdLine(csv[k].text)}

TaxIdAt(k) == Some(SubSeq(csv[k].text, 3, Len(csv[k].text)))

\* C23: during pass 1 the tax IDs of the document in flight follow arrival
\* order: buyer_tax_id is the ID of the first matching tax-ID line of the
\* document and stays so, seller_tax_id is the ID of the last matching line
\* when there are two or more, and is unset otherwise.
C23_TaxIdsByArrival ==
    (pc = "pass1" /\ row > 1) =>
        IF SegmentTaxIdRows = {}
        THEN /\ self.current_invoice.buyer_tax_id = None
             /\ self.current_invoice.seller_tax_id = None
        ELSE /\ self.current_invoice.buyer_tax_id = TaxIdAt(Min(SegmentTaxIdRows))
             /\ self.current_invoice.seller_tax_id =
                    IF Cardinality(SegmentTaxIdRows) = 1 THEN None
                    ELSE TaxIdAt(Max(SegmentTaxIdRows))

\* C23 witness: three tax-ID lines of one document have been processed, the
\* third repeating the ID of the first: the buyer slot holds the first ID
\* and the seller slot the last one, not the second
C23_Witness ==
    /\ pc = "pass1"
    /\ row = 4
    /\ SegmentTaxIdRows = {1, 2, 3}
    /\ TaxIdAt(1) # TaxIdAt(2)
    /\ TaxIdAt(3) = TaxIdAt(1)
    /\ self.current_invoice.buyer_tax_id = TaxIdAt(1)
    /\ self.current_invoice.seller_tax_id = TaxIdAt(3)

-----------------------------------------------------------------------------
\* the digit runs of a line that follow the label, an optional colon and
\* optional blanks, for every occurrence of the label
LabeledRuns(line) ==
    {Slice(line, j, RunEnd(line, j, Digits)) :
        j \in {i \in 2..Len(line) :
                  /\ line[i] \in Digits
                  /\ \E k \in 1..(i - 1) :
                        /\ line[k] = "FPHM"
                        /\ \A m \in (k + 1)..(i - 1) : line[m] \in Spaces \cup {":"}
                        /\ \A m \in (k + 2)..(i - 1) : line[m] \in Spaces}}

\* the candidates for the invoice number of a document: the labeled digit
\* runs and the lines that are exactly 20 digits
NumberCandidates(text_lines) ==
    UNION {LabeledRuns(text_lines[k]) : k \in 1..Len(text_lines)}
        \cup {text_lines[k] : k \in {i \in 1..Len(text_lines) :
                 Len(text_lines[i]) = 20 /\ Range(text_lines[i]) \subseteq Digits}}

\* C24: the invoice number of a record built by recovery is a candidate of
\* the document (a labeled digit run or a whole line of exactly 20 digits)
\* of at least 8 characters; when the document has no candidate of at least
\* 8 characters the number is unset and the recovery fails.
C24_NumberAtLeastEight ==
    \A f \in Sources :
        last_recovery[f] # None =>
            /\ last_recovery[f][1].rec.invoice_no # None
                   => /\ last_recovery[f][1].rec.invoice_no[1]
                             \in NumberCandidates(LinesOf(csv, f))
                      /\ Len(last_recovery[f][1].rec.invoice_no[1]) >= 8
            /\ {c \in NumberCandidates(LinesOf(csv, f)) : Len(c) >= 8} = {}
                   => /\ last_recovery[f][1].rec.invoice_no = None
                      /\ ~last_recovery[f][1].ok

\* C24 witness: the document has a labeled run of three digits and then a
\* line of 20 digits; the recovery passed over the short run and stored the
\* 20 digits
C24_Witness ==
    /\ last_recovery["a.pdf"] # None
    /\ Len(LinesOf(csv, "a.pdf")) = 2
    /\ LabeledRuns(LinesOf(csv, "a.pdf")[1]) = {<<"1", "2", "3">>}
    /\ last_recovery["a.pdf"][1].rec.invoice_no = Some(LinesOf(csv, "a.pdf")[2])
    /\ Len(LinesOf(csv, "a.pdf")[2]) = 20

-----------------------------------------------------------------------------
\* the lines of every document are contiguous in the stream
Contiguous(rows) ==
    \A i, j \in 1..Len(rows) :
        rows[i].source = rows[j].source
            => \A k \in i..j : rows[k].source = rows[i].source

\* the stream with its whole document segments in the other order: the
\* documents other than the first one, then the first one
Swapped(rows) ==
    IF rows = <<>> THEN rows
    ELSE SelectSeq(rows, LAMBDA r : r.source # rows[1].source)
             \o SelectSeq(rows, LAMBDA r : r.source = rows[1].source)

\* no recovery call of the run raised
NoFault == \A k \in 1..Len(log) : log[k].ev # "fault"

\* the records and the failed documents of this run are those of the instance
SameOutcome(other) ==
    /\ Range(other.invoices) = Range(result[1])
    /\ Range(other.failed_files) = Range(self.failed_files)

\* C25: when process_csv has returned on a stream whose documents are
\* contiguous, the run on the stream with the document segments permuted
\* gives the same set of records and the same set of failed documents.
C25_DocumentOrderImmaterial ==
    (pc = "returned" /\ NoFault /\ Contiguous(csv))
        => SameOutcome(process_csv(Swapped(csv)))

-----------------------------------------------------------------------------
\* C26: when process_csv has returned, every source that occurs in the
\* stream has a record among the returned records or is in failed_files.
C26_NoDocumentLost ==
    pc = "returned" =>
        \A k \in 1..Len(csv) :
            \/ RecordsOf(Val(result), csv[k].source) # {}
            \/ InSeq(csv[k].source, self.failed_files)

-----------------------------------------------------------------------------
\* C27: after any sequence of process_line, finalize_invoice and
\* second_pass_process calls the record list holds at most one record per
\* source.
C27_OneRecordPerSource ==
    \A f \in Sources : Cardinality(RecordsOf(self.invoices, f)) <= 1

-----------------------------------------------------------------------------
\* the sources of the rows of a frame
PathsOf(rows) == {Val(rows[k].path) : k \in 1..Len(rows)}

\* C28: in the report of main no source written to the failed list (still
\* in failed_files after the recovery) has a record among the valid or the
\* unique invoices.
C28_FailedAndValidDisjoint ==
    (pc = "reported" /\ ~report[1].error /\ report[1].failed_invoices_txt # None) =>
        /\ Range(report[1].failed_invoices_txt[1]) \cap PathsOf(report[1].valid_invoices) = {}
        /\ Range(report[1].failed_invoices_txt[1]) \cap PathsOf(report[1].unique_invoices) = {}

-----------------------------------------------------------------------------
\* C29: whenever the reconciliation search of a recovery has accepted a
\* pair, the total of the pair is strictly greater than its subtotal.
C29_TotalAboveSubtotal ==
    (calls > 0 /\ self.found_match) =>
        self.cached_total_amount[1] > self.cached_sales_amount[1]

-----------------------------------------------------------------------------
\* the records of a source in the record list, in order
RecordsSeq(invs, f) == SelectSeq(invs, LAMBDA inv : inv.path = Some(f))

\* a step of the retry loop of process_csv is a recovery call for the head
\* of the queue; it leaves the records of every other source and the
\* membership of every other source in failed_files as they were
RecoveryFrame ==
    (pc = "retry" /\ retry_queue # <<>>) =>
        \A g \in Sources \ {Head(retry_queue)} :
            /\ RecordsSeq(self'.invoices, g) = RecordsSeq(self.invoices, g)
            /\ InSeq(g, self'.failed_files) <=> InSeq(g, self.failed_files)

\* C30: a recovery call for a source changes neither the records of another
\* source in the record list nor the membership of another source in
\* failed_files, whether it succeeds, fails or raises.
C30_RecoveryFrame == [][RecoveryFrame]_vars

\* C30 witness: the recovery of a.pdf has succeeded while b.pdf, rejected in
\* pass 1, has its record in the list and stays in failed_files
C30_Witness ==
    /\ pc = "retry"
    /\ Recovered("a.pdf")
    /\ ~InSeq("a.pdf", self.failed_files)
    /\ InSeq("b.pdf", self.failed_files)
    /\ RecordsSeq(self.invoices, "b.pdf") # <<>>
    /\ RecordsSeq(self.invoices, "a.pdf") # <<>>

=============================================================================
